---- MODULE Spec2Model ----
(***************************************************************************)
(* Model of the interactive text-physics scene of the portfolio page       *)
(* (component Home) and of its layout planner getResponsiveConfig.         *)
(*                                                                         *)
(* Units.  Lengths are fixed-point numbers in 1/1000 px, so that the       *)
(* factors 0.62, 0.9 and 1.1 of the source stay exact: 5 px is 5000.       *)
(* Angles and angular velocities are in 1/100 rad: 0.1 rad is 10.          *)
(* Strings are sequences of one-character strings.                         *)
(***************************************************************************)
EXTENDS Integers, Sequences, FiniteSets, TLC

(***************************************************************************)
(* Bounds of the model                                                     *)
(***************************************************************************)
\* container widths (px) the layout planner is probed with: 0..MaxWidth
MaxWidth == 800

(***************************************************************************)
(* Program constants                                                       *)
(***************************************************************************)
MOVEMENT_THRESHOLD == 5000

DESCRIPTION_TEXT ==
    << "H", "e", "y", "!", " ", "I", "'", "m", " ", "a", " ", "p", "r", "o", "d", "u",
       "c", "t", " ", "e", "n", "g", "i", "n", "e", "e", "r", " ", "b", "a", "s", "e",
       "d", " ", "i", "n", " ", "L", "o", "n", "d", "o", "n", ",", " ", "i", "n", "t",
       "e", "r", "e", "s", "t", "e", "d", " ", "i", "n", " ", "a", "g", "e", "n", "t",
       "i", "c", " ", "s", "y", "s", "t", "e", "m", "s", ",", " ", "d", "e", "s", "i",
       "g", "n", " ", "s", "y", "s", "t", "e", "m", "s", " ", "a", "n", "d", " ", "b",
       "r", "i", "n", "g", "i", "n", "g", " ", "p", "e", "o", "p", "l", "e", " ", "j",
       "o", "y", " ", "t", "h", "r", "o", "u", "g", "h", " ", "s", "o", "f", "t", "w",
       "a", "r", "e", ".", " ", "I", " ", "s", "t", "u", "d", "i", "e", "d", " ", "c",
       "o", "m", "p", " ", "s", "c", "i", " ", "@", " ", "U", "C", "L", " ", "a", "n",
       "d", " ", "w", "o", "r", "k", " ", "o", "n", " ", "e", "v", "e", "r", "y", "t",
       "h", "i", "n", "g", " ", "f", "r", "o", "n", "t", " ", "e", "n", "d", " ", "@",
       " ", "c", "o", "d", "e", "w", "o", "r", "d", "s" >>

(***************************************************************************)
(* Helpers standing for JavaScript built-ins                               *)
(***************************************************************************)
Abs(n) == IF n < 0 THEN -n ELSE n

\* String.prototype.split(' '): the pieces between single spaces, empty
\* pieces included.
Split(s) ==
    LET cuts == <<0>> \o SelectSeq([i \in 1..Len(s) |-> i], LAMBDA i : s[i] = " ")
                      \o <<Len(s) + 1>>
    IN  [ k \in 1..(Len(cuts) - 1) |-> SubSeq(s, cuts[k] + 1, cuts[k + 1] - 1) ]

(***************************************************************************)
(* getResponsiveConfig                                                     *)
(***************************************************************************)
\* Math.floor(containerWidth / charWidth) - 2 with charWidth = descFontSize * 0.62.
\* The quotient is exact integer arithmetic on 1/1000 px, except where IEEE-754
\* doubles differ from it on an integer width: 15 * 0.62 rounds above 9.3, so
\* 558 / (15 * 0.62) is just below 60 and floors to 59.
maxCharsPerLine(containerWidth, descFontSize) ==
    LET exact == (containerWidth * 1000) \div (descFontSize * 620)
        floored == IF containerWidth = 558 /\ descFontSize = 15 THEN exact - 1 ELSE exact
    IN  floored - 2

\* mutant: the loop measures the current line instead of the tentative line
RECURSIVE WrapWordsMeasuringCurrent(_, _, _, _, _)
WrapWordsMeasuringCurrent(words, k, lines, currentLine, maxChars) ==
    IF k > Len(words)
    THEN IF currentLine # <<>> THEN Append(lines, currentLine) ELSE lines
    ELSE LET word == words[k]
             testLine == IF currentLine # <<>> THEN currentLine \o <<" ">> \o word ELSE word
         IN  IF Len(currentLine) <= maxChars
             THEN WrapWordsMeasuringCurrent(words, k + 1, lines, testLine, maxChars)
             ELSE WrapWordsMeasuringCurrent(words, k + 1,
                      IF currentLine # <<>> THEN Append(lines, currentLine) ELSE lines,
                      word, maxChars)

\* mutant: the loop without the final flush of line 55
RECURSIVE WrapWordsNoFinalFlush(_, _, _, _, _)
WrapWordsNoFinalFlush(words, k, lines, currentLine, maxChars) ==
    IF k > Len(words)
    THEN lines
    ELSE LET word == words[k]
             testLine == IF currentLine # <<>> THEN currentLine \o <<" ">> \o word ELSE word
         IN  IF Len(testLine) <= maxChars
             THEN WrapWordsNoFinalFlush(words, k + 1, lines, testLine, maxChars)
             ELSE WrapWordsNoFinalFlush(words, k + 1,
                      IF currentLine # <<>> THEN Append(lines, currentLine) ELSE lines,
                      word, maxChars)

\* the for-loop over words (lines 46-54) followed by the final flush (line 55)
RECURSIVE WrapWords(_, _, _, _, _)
WrapWords(words, k, lines, currentLine, maxChars) ==
    IF k > Len(words)
    THEN IF currentLine # <<>> THEN Append(lines, currentLine) ELSE lines
    ELSE LET word == words[k]
             testLine == IF currentLine # <<>> THEN currentLine \o <<" ">> \o word ELSE word
         IN  IF Len(testLine) <= maxChars
             THEN WrapWords(words, k + 1, lines, testLine, maxChars)
             ELSE WrapWords(words, k + 1,
                            IF currentLine # <<>> THEN Append(lines, currentLine) ELSE lines,
                            word, maxChars)

getResponsiveConfig(containerWidth) ==
    LET isMobile == containerWidth < 500
        isTablet == containerWidth < 768
        titleFontSize == IF isMobile THEN 20 ELSE IF isTablet THEN 18 ELSE 16
        descFontSize == IF isMobile THEN 16 ELSE IF isTablet THEN 15 ELSE 14
        lineHeight == IF isMobile THEN 28 ELSE IF isTablet THEN 26 ELSE 24
        descLineHeight == IF isMobile THEN 24 ELSE IF isTablet THEN 23 ELSE 22
    IN  [ titleFontSize |-> titleFontSize,
          descFontSize |-> descFontSize,
          lineHeight |-> lineHeight,
          descLineHeight |-> descLineHeight,
          descriptionLines |->
              WrapWords(Split(DESCRIPTION_TEXT), 1, <<>>, <<>>,
                        maxCharsPerLine(containerWidth, descFontSize)) ]

(***************************************************************************)
(* Bounds and input samples of the scene model                             *)
(***************************************************************************)
\* bodies are created in batches (one per effect run, one per resize); a
\* behaviour holds at most MaxEpoch batches
MaxEpoch == 4

\* pointer and touch events are sampled at the origin and at the point 14 px
\* above the top edge of glyph number PointerGlyph at its initial position,
\* where the pointer proxy is in contact with that glyph
PointerGlyph == 1

\* window sizes and the hero element's top edge, in px
Viewports ==
    { [innerWidth |-> 320,  innerHeight |-> 568, heroTop |-> 40],
      [innerWidth |-> 606,  innerHeight |-> 800, heroTop |-> 120] }

\* outcomes of one engine update for a body that is free to move, as a
\* displacement from the body's initial position, an angle and velocities:
\* all three measures exactly at their thresholds and still moving, and each
\* measure alone just beyond its threshold
PoseSamples ==
    { [dx |-> 0,    dy |-> 0,     angle |-> 0,   vx |-> 0,   vy |-> 0,    av |-> 0],
      [dx |-> 5000, dy |-> -5000, angle |-> -10, vx |-> 800, vy |-> -600, av |-> 2],
      [dx |-> 5001, dy |-> 0,     angle |-> 0,   vx |-> 0,   vy |-> 0,    av |-> 0],
      [dx |-> 0,    dy |-> -5001, angle |-> 0,   vx |-> 0,   vy |-> 0,    av |-> 0],
      [dx |-> 0,    dy |-> 0,     angle |-> 11,  vx |-> 0,   vy |-> 0,    av |-> 0] }

VARIABLES
    phase,            \* "rendered" (before the mount effect), "mounted", "unmounted"
    viewport,         \* window.innerWidth/innerHeight and the hero element's top
    engineRef,        \* engineRef.current: 0 for null, else the engine's batch number
    world,            \* ids of the bodies in engineRef.current.world
    render,           \* render.options width and height (px), or NoRender
    textBodies,       \* textBodiesRef.current
    walls,            \* wallsRef.current
    mouseBody,        \* mouseBodyRef.current, or NoBody
    heroRef,          \* heroRef.current is attached to the hero element
    sceneRef,         \* sceneRef.current is attached to the canvas layer
    listeners,        \* registered event listeners, each <<event type, scene>>
    loops,            \* scheduled frame loops, each <<"runner" or "render", scene>>
    hasBeenTouched,   \* hasBeenTouchedRef.current
    showResetButton,  \* the rendered React state
    pendingShow,      \* a queued setShowResetButton(true) not yet rendered
    closureShow,      \* showResetButton as captured by the registered checkForMovement
    exiting,          \* the reset button is still in the DOM, playing its exit animation
    epoch,            \* number of body batches created so far
    lastOp,           \* history: the handler that ran last
    interacted,       \* history: a pointer, touch, resize or reset event has occurred
    planWidth,        \* layout probe: the width handed to getResponsiveConfig
    plan,             \* layout probe: what getResponsiveConfig returned
    request,          \* subscription endpoint: the request's body
    storeOutcome,     \* subscription endpoint: what resend.contacts.create will do
    response,         \* subscription endpoint: the response of POST, or NoResponse
    contacts          \* subscription endpoint: the emails passed to the contact store

sceneVars == << phase, viewport, engineRef, world, render, textBodies, walls, mouseBody,
                heroRef, sceneRef, listeners, loops, hasBeenTouched, showResetButton, pendingShow, closureShow, exiting,
                epoch, lastOp, interacted >>
planVars == << planWidth, plan >>
apiVars == << request, storeOutcome, response, contacts >>
vars == << sceneVars, planVars, apiVars >>

NoRender == [width |-> 0, height |-> 0, canvas |-> FALSE]
NoBody == [id |-> 0, x |-> 0, y |-> 0]

Min(a, b) == IF a <= b THEN a ELSE b

\* the hero element's bounding rectangle (px): w-full inside
\* "max-w-2xl mx-auto px-6" (672 px at most, centred, 24 px padding each side)
HeroRect(v) ==
    LET outer == Min(v.innerWidth, 672)
    IN  [ width |-> outer - 48,
          left |-> (v.innerWidth - outer) \div 2 + 24,
          top |-> v.heroTop ]

(***************************************************************************)
(* createLetterBodies                                                      *)
(***************************************************************************)
\* Bodies.rectangle(x, y, bodyWidth, bodyHeight, ...): a body at rest
Rectangle(x, y, w, h) ==
    [ x |-> x, y |-> y, angle |-> 0, vx |-> 0, vy |-> 0, av |-> 0, w |-> w, h |-> h ]

\* the inner for-loop over the characters of one line (lines 137-158, 168-189):
\* a body for every character that is not a space, the space keeping its slot
LineBodies(text, fontSize, y, isTitle, offsetX) ==
    LET charWidth == fontSize * 620
        startX == offsetX * 1000 + charWidth \div 2
        slots == SelectSeq([i \in 1..Len(text) |-> i], LAMBDA i : text[i] # " ")
    IN  [ k \in 1..Len(slots) |->
            LET i == slots[k] - 1
                x == startX + i * charWidth
            IN  [ body |-> Rectangle(x, y, (charWidth * 9) \div 10, fontSize * 1100),
                  char |-> text[i + 1],
                  fontSize |-> fontSize,
                  initialX |-> x,
                  initialY |-> y,
                  isTitle |-> isTitle ] ]

RECURSIVE DescriptionBodies(_, _, _, _, _, _)
DescriptionBodies(lines, lineIndex, descFontSize, descStartY, descLineHeight, offsetX) ==
    IF lineIndex >= Len(lines) THEN <<>>
    ELSE LineBodies(lines[lineIndex + 1], descFontSize,
                    descStartY + lineIndex * descLineHeight * 1000, FALSE, offsetX)
         \o DescriptionBodies(lines, lineIndex + 1, descFontSize, descStartY,
                              descLineHeight, offsetX)

TITLE_LINE_1 == << "A", "M", "M", "A", "N", " ", "V", "E", "D", "I" >>
TITLE_LINE_2 == << "P", "R", "O", "D", "U", "C", "T", " ",
                   "E", "N", "G", "I", "N", "E", "E", "R" >>

\* the list createLetterBodies pushes, in push order, each body tagged with
\* its identity.  A body's id is 1000 * its batch + its serial in the batch:
\* the glyph's position in the list, 901..904 for the walls, 999 for the
\* pointer proxy.
NewTextBodies(containerWidth, offsetX, offsetY, e) ==
    LET config == getResponsiveConfig(containerWidth)
        y1 == (offsetY + 50) * 1000
        y2 == (offsetY + 50 + config.lineHeight) * 1000
        descStartY == (offsetY + 50 + config.lineHeight * 2 + 40) * 1000
        all == LineBodies(TITLE_LINE_1, config.titleFontSize, y1, TRUE, offsetX)
               \o LineBodies(TITLE_LINE_2, config.titleFontSize, y2, TRUE, offsetX)
               \o DescriptionBodies(config.descriptionLines, 0, config.descFontSize,
                                    descStartY, config.descLineHeight, offsetX)
    IN  [ n \in 1..Len(all) |->
            [ all[n] EXCEPT !.body = [ id |-> e * 1000 + n ] @@ all[n].body ] ]

BodyIds(list) == { list[n].body.id : n \in 1..Len(list) }

\* mutant: createLetterBodies without clearing the existing text bodies
createLetterBodiesAppending(eng, wld, tbs, containerWidth, offsetX, offsetY, e) ==
    IF eng = 0
    THEN [ world |-> wld, textBodies |-> tbs ]
    ELSE LET fresh == NewTextBodies(containerWidth, offsetX, offsetY, e)
         IN  [ world |-> wld \cup BodyIds(fresh), textBodies |-> tbs \o fresh ]

\* mutant: createLetterBodies without the test for the world
createLetterBodiesUnguarded(eng, wld, tbs, containerWidth, offsetX, offsetY, e) ==
    LET fresh == NewTextBodies(containerWidth, offsetX, offsetY, e)
    IN  [ world |-> (wld \ BodyIds(tbs)) \cup BodyIds(fresh), textBodies |-> fresh ]

\* createLetterBodies(containerWidth, offsetX, offsetY) on the refs
\* (eng, wld, tbs): the new world and the new textBodiesRef.current
createLetterBodies(eng, wld, tbs, containerWidth, offsetX, offsetY, e) ==
    IF eng = 0
    THEN [ world |-> wld, textBodies |-> tbs ]
    ELSE LET fresh == NewTextBodies(containerWidth, offsetX, offsetY, e)
         IN  [ world |-> (wld \ BodyIds(tbs)) \cup BodyIds(fresh),
               textBodies |-> fresh ]

(***************************************************************************)
(* createWalls                                                             *)
(***************************************************************************)
wallThickness == 100
extendedHeight == 2000

NewWalls(width, e) ==
    LET wall(n, x, y, w, h) ==
            [ id |-> e * 1000 + 900 + n, x |-> x, y |-> y, w |-> w, h |-> h, isStatic |-> TRUE ]
    IN  << wall(1, width * 500, extendedHeight * 1000 + wallThickness * 500,
                width * 2000, wallThickness * 1000),
           wall(2, width * 500, -(wallThickness * 500), width * 2000, wallThickness * 1000),
           wall(3, -(wallThickness * 500), extendedHeight * 500,
                wallThickness * 1000, extendedHeight * 2000),
           wall(4, width * 1000 + wallThickness * 500, extendedHeight * 500,
                wallThickness * 1000, extendedHeight * 2000) >>

WallIds(list) == { list[n].id : n \in 1..Len(list) }

\* mutant: createWalls without removing the old walls from the world
createWallsKeepingOld(eng, wld, wls, width, e) ==
    IF eng = 0
    THEN [ world |-> wld, walls |-> wls ]
    ELSE LET fresh == NewWalls(width, e)
         IN  [ world |-> wld \cup WallIds(fresh), walls |-> fresh ]

\* createWalls(width) on the refs (eng, wld, wls): the new world and the new
\* wallsRef.current
createWalls(eng, wld, wls, width, e) ==
    IF eng = 0
    THEN [ world |-> wld, walls |-> wls ]
    ELSE LET fresh == NewWalls(width, e)
         IN  [ world |-> (wld \ WallIds(wls)) \cup WallIds(fresh), walls |-> fresh ]

(***************************************************************************)
(* resetText and checkForMovement                                          *)
(***************************************************************************)
\* mutant: resetText without setVelocity and setAngularVelocity
resetBodyKeepsVelocity(tb) ==
    [ tb EXCEPT !.body = [ @ EXCEPT !.x = tb.initialX, !.y = tb.initialY, !.angle = 0 ] ]

\* the forEach of resetText: setPosition, setAngle, setVelocity, setAngularVelocity
resetBody(tb) ==
    [ tb EXCEPT !.body = [ @ EXCEPT !.x = tb.initialX, !.y = tb.initialY, !.angle = 0,
                                    !.vx = 0, !.vy = 0, !.av = 0 ] ]

resetPoses(tbs) == [ n \in 1..Len(tbs) |-> resetBody(tbs[n]) ]

\* mutant: the thresholds compared with >= instead of >
exceedsThresholdInclusive(tb) ==
    \/ Abs(tb.body.x - tb.initialX) >= MOVEMENT_THRESHOLD
    \/ Abs(tb.body.y - tb.initialY) >= MOVEMENT_THRESHOLD
    \/ Abs(tb.body.angle) >= 10

\* the condition of line 252 for one text body
exceedsThreshold(tb) ==
    LET dx == Abs(tb.body.x - tb.initialX)
        dy == Abs(tb.body.y - tb.initialY)
        angle == Abs(tb.body.angle)
    IN  dx > MOVEMENT_THRESHOLD \/ dy > MOVEMENT_THRESHOLD \/ angle > 10

\* hasMoved after the loop of checkForMovement
hasMoved(tbs) == \E n \in 1..Len(tbs) : exceedsThreshold(tbs[n])

\* mutant: a check that finds no movement clears the touched flag
checkForMovementSelfClearing(tbs, touched, closure, shown, pending) ==
    IF hasMoved(tbs)
    THEN [ hasBeenTouched |-> TRUE,
           pendingShow |-> IF ~closure /\ ~shown THEN TRUE ELSE pending ]
    ELSE [ hasBeenTouched |-> FALSE, pendingShow |-> pending ]

\* mutant: a check that finds movement sets the flag and never shows the button
checkForMovementNoButton(tbs, touched, closure, shown, pending) ==
    [ hasBeenTouched |-> touched \/ hasMoved(tbs), pendingShow |-> pending ]

\* mutant: a check that finds movement shows the button and leaves the flag
checkForMovementNoFlag(tbs, touched, closure, shown, pending) ==
    [ hasBeenTouched |-> touched,
      pendingShow |-> IF hasMoved(tbs) /\ ~closure /\ ~shown THEN TRUE ELSE pending ]

\* checkForMovement with the showResetButton it closed over: the new
\* hasBeenTouchedRef.current and whether a setShowResetButton(true) is queued
\* (React drops the update when the state is true already)
checkForMovement(tbs, touched, closure, shown, pending) ==
    IF hasMoved(tbs)
    THEN [ hasBeenTouched |-> TRUE,
           pendingShow |-> IF ~closure /\ ~shown THEN TRUE ELSE pending ]
    ELSE [ hasBeenTouched |-> touched, pendingShow |-> pending ]

(***************************************************************************)
(* The physics engine (Matter.js), as far as the scene relies on it        *)
(***************************************************************************)
\* mutant: the engine's default gravity
DefaultGravity == [ x |-> 0, y |-> 1, scale |-> 1 ]

\* Engine.create({ gravity: { x: 0, y: 0, scale: 0 } })
EngineGravity == [ x |-> 0, y |-> 0, scale |-> 0 ]

\* the pointer proxy, Bodies.circle(0, 0, 15), overlaps the rectangle of body b
\* (the rectangle's rotation is ignored)
Touches(m, b) ==
    LET gx == Abs(m.x - b.x) - b.w \div 2
        gy == Abs(m.y - b.y) - b.h \div 2
        nx == IF gx < 0 THEN 0 ELSE gx
        ny == IF gy < 0 THEN 0 ELSE gy
    IN  /\ nx < 15000
        /\ ny < 15000
        /\ nx * nx + ny * ny < 15000 * 15000

\* an engine update changes the pose of a body only if gravity pulls it, it is
\* already in motion, or the pointer proxy is in contact with it.  Contacts
\* with walls and between glyphs are left out: they arise only after the
\* pointer proxy has set a glyph in motion or a resize has moved the walls.
Free(tb, m) ==
    \/ EngineGravity.scale # 0 /\ (EngineGravity.x # 0 \/ EngineGravity.y # 0)
    \/ tb.body.vx # 0 \/ tb.body.vy # 0 \/ tb.body.av # 0
    \/ m # NoBody /\ Touches(m, tb.body)

Posed(tb, s) ==
    [ tb EXCEPT !.body = [ @ EXCEPT !.x = tb.initialX + s.dx, !.y = tb.initialY + s.dy,
                                    !.angle = s.angle, !.vx = s.vx, !.vy = s.vy,
                                    !.av = s.av ] ]

(***************************************************************************)
(* The mount effect and its cleanup                                        *)
(***************************************************************************)
\* the effect body (lines 267-390) run for viewport v as batch e, the refs
\* holding tbs and wls from before: a new engine and render, walls, letter
\* bodies and the pointer proxy
Effect(v, tbs, wls, e) ==
    LET hero == HeroRect(v)
        w == createWalls(e, {}, wls, v.innerWidth, e)
        l == createLetterBodies(e, w.world, tbs, hero.width, hero.left, hero.top, e)
        mouse == [ id |-> e * 1000 + 999, x |-> 0, y |-> 0 ]
    IN  [ engineRef |-> e,
          render |-> [ width |-> v.innerWidth, height |-> v.innerHeight, canvas |-> TRUE ],
          walls |-> w.walls,
          textBodies |-> l.textBodies,
          mouseBody |-> mouse,
          world |-> l.world \cup { mouse.id } ]

\* the listeners the effect of scene e adds to document and window
Registered(e) ==
    { <<"mousemove", e>>, <<"touchmove", e>>, <<"touchstart", e>>, <<"resize", e>> }

\* Runner.run and Render.run of scene e: the two requestAnimationFrame loops
Started(e) == { <<"runner", e>>, <<"render", e>> }

\* mutant: the cleanup without window.removeEventListener('resize', handleResize)
cleanupListenersKeepingResize(ls, e) == ls \ (Registered(e) \ { <<"resize", e>> })

\* the four removeEventListener calls of the cleanup of scene e
cleanupListeners(ls, e) == ls \ Registered(e)

\* Render.stop(render) and Runner.stop(runner) of the cleanup of scene e
cleanupLoops(lp, e) == lp \ Started(e)

\* the cleanup of the running scene followed by the effect run as batch e on
\* the glyph list tbs
Restart(tbs, e) ==
    LET r == Effect(viewport, tbs, walls, e)
    IN  /\ engineRef' = r.engineRef
        /\ render' = r.render
        /\ walls' = r.walls
        /\ textBodies' = r.textBodies
        /\ mouseBody' = r.mouseBody
        /\ world' = r.world
        /\ listeners' = cleanupListeners(listeners, engineRef) \cup Registered(e)
        /\ loops' = cleanupLoops(loops, engineRef) \cup Started(e)
        /\ epoch' = e

\* cleanup immediately followed by the effect, as React runs them when the
\* identity of checkForMovement has changed
RerunEffect == Restart(textBodies, epoch + 1)

(***************************************************************************)
(* The subscription endpoint: POST of the api route                        *)
(***************************************************************************)
\* longest email string the endpoint is probed with
MaxEmailLen == 6

\* the characters of the probed strings: a word character, the two separators
\* of the pattern, and white space
EmailChars == { "a", "@", ".", " " }

EmailStrings == UNION { [ 1..n -> EmailChars ] : n \in 0..MaxEmailLen }

\* what request.json() gives: it throws ("invalid"), or it returns null, a
\* primitive, or an object whose email property is absent or a value of a
\* JavaScript type
Requests ==
    { [ body |-> b, email |-> [ type |-> "undefined" ] ] : b \in { "invalid", "null", "primitive" } }
    \cup { [ body |-> "object", email |-> [ type |-> t ] ] : t \in { "undefined", "null", "object" } }
    \cup { [ body |-> "object", email |-> [ type |-> "number", value |-> v ] ] : v \in { 0, 42 } }
    \cup { [ body |-> "object", email |-> [ type |-> "boolean", value |-> v ] ] : v \in BOOLEAN }
    \cup { [ body |-> "object", email |-> [ type |-> "string", value |-> v ] ] : v \in EmailStrings }

\* resend.contacts.create resolves with data, resolves with neither data nor
\* error, resolves with an error, or rejects
StoreOutcomes == { "created", "empty", "error", "throws" }

NoRequest == [ body |-> "none", email |-> [ type |-> "undefined" ] ]
NoResponse == [ status |-> 0, error |-> "", success |-> FALSE ]

\* JavaScript's !!email
Truthy(email) ==
    CASE email.type \in { "undefined", "null" } -> FALSE
      [] email.type = "number" -> email.value # 0
      [] email.type = "boolean" -> email.value
      [] email.type = "string" -> Len(email.value) > 0
      [] OTHER -> TRUE

\* [^\s@]+ matches the whole of t
NoSpaceNoAt(t) == Len(t) > 0 /\ \A k \in 1..Len(t) : t[k] \notin { " ", "@" }

\* mutant: the pattern without its anchors ^ and $
emailRegexTestUnanchored(str) ==
    \E a \in 1..Len(str), b \in 1..Len(str), i \in 1..Len(str), j \in 1..Len(str) :
        /\ a < i /\ i < j /\ j < b
        /\ str[i] = "@"
        /\ str[j] = "."
        /\ NoSpaceNoAt(SubSeq(str, a, i - 1))
        /\ NoSpaceNoAt(SubSeq(str, i + 1, j - 1))
        /\ NoSpaceNoAt(SubSeq(str, j + 1, b))

\* /^[^\s@]+@[^\s@]+\.[^\s@]+$/.test(str): str splits at an "@" and a later
\* "." into three pieces that each match [^\s@]+
emailRegexTest(str) ==
    \E i \in 1..Len(str), j \in 1..Len(str) :
        /\ i < j
        /\ str[i] = "@"
        /\ str[j] = "."
        /\ NoSpaceNoAt(SubSeq(str, 1, i - 1))
        /\ NoSpaceNoAt(SubSeq(str, i + 1, j - 1))
        /\ NoSpaceNoAt(SubSeq(str, j + 1, Len(str)))

\* POST(request) with the contact store behaving as outcome: the response and
\* the emails passed to resend.contacts.create
POST(req, outcome) ==
    IF req.body = "invalid" \/ req.body = "null"
    THEN \* request.json() or the destructuring of null throws: the catch block
         [ response |-> [ status |-> 500, error |-> "Something went wrong", success |-> FALSE ],
           contacts |-> <<>> ]
    ELSE LET email == req.email
         IN  IF ~Truthy(email) \/ email.type # "string"
             THEN [ response |-> [ status |-> 400, error |-> "Email is required",
                                   success |-> FALSE ],
                    contacts |-> <<>> ]
             ELSE IF ~emailRegexTest(email.value)
             THEN [ response |-> [ status |-> 400, error |-> "Invalid email format",
                                   success |-> FALSE ],
                    contacts |-> <<>> ]
             ELSE IF outcome = "throws"
             THEN [ response |-> [ status |-> 500, error |-> "Something went wrong",
                                   success |-> FALSE ],
                    contacts |-> << email.value >> ]
             ELSE IF outcome = "error"
             THEN [ response |-> [ status |-> 500, error |-> "Failed to subscribe",
                                   success |-> FALSE ],
                    contacts |-> << email.value >> ]
             ELSE [ response |-> [ status |-> 200, error |-> "", success |-> TRUE ],
                    contacts |-> << email.value >> ]

ApiIdle ==
    /\ request = NoRequest
    /\ storeOutcome = "created"
    /\ response = NoResponse
    /\ contacts = <<>>

(***************************************************************************)
(* Initial state: the component has rendered, no effect has run            *)
(***************************************************************************)
SceneInit ==
    /\ phase = "rendered"
    /\ viewport \in Viewports
    /\ engineRef = 0
    /\ world = {}
    /\ render = NoRender
    /\ textBodies = <<>>
    /\ walls = <<>>
    /\ mouseBody = NoBody
    /\ heroRef = TRUE
    /\ sceneRef = TRUE
    /\ listeners = {}
    /\ loops = {}
    /\ hasBeenTouched = FALSE
    /\ showResetButton = FALSE
    /\ pendingShow = FALSE
    /\ closureShow = FALSE
    /\ exiting = FALSE
    /\ epoch = 0
    /\ lastOp = "render"
    /\ interacted = FALSE

NoPlan == [ descriptionLines |-> <<>> ]

PlanIdle ==
    /\ planWidth = 0
    /\ plan = NoPlan

Init == SceneInit /\ PlanIdle /\ ApiIdle

(***************************************************************************)
(* Handlers                                                                *)
(***************************************************************************)
\* useEffect on mount; it returns at once if a ref is not attached
MountEffect ==
    /\ phase = "rendered"
    /\ epoch < MaxEpoch
    /\ IF sceneRef /\ heroRef
       THEN /\ RerunEffect
            /\ closureShow' = showResetButton
       ELSE UNCHANGED << engineRef, render, walls, textBodies, mouseBody, world,
                         listeners, loops, epoch, closureShow >>
    /\ phase' = "mounted"
    /\ lastOp' = "mount"
    /\ UNCHANGED << viewport, heroRef, sceneRef, hasBeenTouched, showResetButton,
                    pendingShow, exiting, interacted, planVars, apiVars >>

\* one tick of the runner: Engine.update moves one body that is free to move
EngineUpdate ==
    /\ \E l \in loops : l[1] = "runner"
    /\ \E n \in 1..Len(textBodies), s \in PoseSamples :
          /\ textBodies[n].body.id \in world
          /\ Free(textBodies[n], mouseBody)
          /\ textBodies' = [ textBodies EXCEPT ![n] = Posed(@, s) ]
    /\ lastOp' = "other"
    /\ UNCHANGED << phase, viewport, engineRef, world, render, walls, mouseBody,
                    heroRef, sceneRef, listeners, loops,
                    hasBeenTouched, showResetButton, pendingShow, closureShow, exiting,
                    epoch, interacted, planVars, apiVars >>

\* the afterRender handler: the render pass reads the bodies, then
\* checkForMovement runs with the showResetButton it closed over
AfterRender ==
    /\ \E l \in loops : l[1] = "render"
    /\ LET c == checkForMovement(textBodies, hasBeenTouched, closureShow,
                                 showResetButton, pendingShow)
       IN  /\ hasBeenTouched' = c.hasBeenTouched
           /\ pendingShow' = c.pendingShow
    /\ lastOp' = "frame"
    /\ UNCHANGED << phase, viewport, engineRef, world, render, textBodies, walls, mouseBody,
                    heroRef, sceneRef, listeners, loops,
                    showResetButton, closureShow, exiting, epoch, interacted, planVars, apiVars >>

\* client positions of the sampled pointer and touch events (1/1000 px)
PointerSamples ==
    { [x |-> 0, y |-> 0] } \cup
    { [x |-> textBodies[k].initialX,
       y |-> textBodies[k].initialY - textBodies[k].body.h \div 2 - 14000] :
        k \in { PointerGlyph } \cap (1..Len(textBodies)) }

\* Body.setPosition(mouseBodyRef.current, client - canvas rect); the canvas is
\* fixed at the viewport's origin
setMousePosition(p) ==
    IF mouseBody # NoBody /\ render.canvas
    THEN mouseBody' = [ mouseBody EXCEPT !.x = p.x, !.y = p.y ]
    ELSE UNCHANGED mouseBody

handleMouseMove ==
    /\ \E l \in listeners : l[1] = "mousemove"
    /\ \E p \in PointerSamples : setMousePosition(p)
    /\ lastOp' = "pointer"
    /\ interacted' = TRUE
    /\ UNCHANGED << phase, viewport, engineRef, world, render, textBodies, walls,
                    heroRef, sceneRef, listeners, loops,
                    hasBeenTouched, showResetButton, pendingShow, closureShow, exiting,
                    epoch, planVars, apiVars >>

\* event.touches is empty or holds sampled points; the first one counts
TouchLists == { <<>> } \cup { <<p>> : p \in PointerSamples }

touchMoveBody(touches) ==
    IF Len(touches) > 0 THEN setMousePosition(touches[1]) ELSE UNCHANGED mouseBody

handleTouchMove ==
    /\ \E l \in listeners : l[1] = "touchmove"
    /\ \E touches \in TouchLists : touchMoveBody(touches)
    /\ lastOp' = "pointer"
    /\ interacted' = TRUE
    /\ UNCHANGED << phase, viewport, engineRef, world, render, textBodies, walls,
                    heroRef, sceneRef, listeners, loops,
                    hasBeenTouched, showResetButton, pendingShow, closureShow, exiting,
                    epoch, planVars, apiVars >>

handleTouchStart ==
    /\ \E l \in listeners : l[1] = "touchstart"
    /\ \E touches \in TouchLists : touchMoveBody(touches)
    /\ lastOp' = "pointer"
    /\ interacted' = TRUE
    /\ UNCHANGED << phase, viewport, engineRef, world, render, textBodies, walls,
                    heroRef, sceneRef, listeners, loops,
                    hasBeenTouched, showResetButton, pendingShow, closureShow, exiting,
                    epoch, planVars, apiVars >>

\* mutant: handleResize recreates the letters on every resize
rebuildsLettersAlways(touched) == TRUE

\* mutant: handleResize never recreates the letters
rebuildsLettersNever(touched) == FALSE

\* line 383: handleResize recreates the letters only if the text is untouched
rebuildsLetters(touched) == ~touched

\* the window is resized to v and handleResize runs; it returns at once if
\* the hero element is not attached
handleResize ==
    /\ \E l \in listeners : l[1] = "resize"
    /\ epoch < MaxEpoch
    /\ \E v \in Viewports :
          LET hero == HeroRect(v)
              e == epoch + 1
              w == createWalls(engineRef, world, walls, v.innerWidth, e)
              l == IF rebuildsLetters(hasBeenTouched)
                   THEN createLetterBodies(engineRef, w.world, textBodies,
                                           hero.width, hero.left, hero.top, e)
                   ELSE [ world |-> w.world, textBodies |-> textBodies ]
          IN  /\ viewport' = v
              /\ IF heroRef
                 THEN /\ render' = [ render EXCEPT !.width = v.innerWidth,
                                                   !.height = v.innerHeight ]
                      /\ walls' = w.walls
                      /\ textBodies' = l.textBodies
                      /\ world' = l.world
                      /\ epoch' = e
                 ELSE UNCHANGED << render, walls, textBodies, world, epoch >>
    /\ lastOp' = "resize"
    /\ interacted' = TRUE
    /\ UNCHANGED << phase, engineRef, mouseBody, heroRef, sceneRef, listeners, loops,
                    hasBeenTouched, showResetButton, pendingShow, closureShow, exiting,
                    planVars, apiVars >>

\* a click on the reset button: resetText, then React renders the state
\* change of this discrete event and re-runs the effect before anything else
\* runs.  The button takes clicks while shown and during its exit animation.
ResetClick ==
    /\ phase = "mounted"
    /\ showResetButton \/ exiting
    /\ hasBeenTouched' = FALSE
    /\ pendingShow' = FALSE
    /\ showResetButton' = FALSE
    /\ IF showResetButton
       THEN /\ epoch < MaxEpoch
            /\ Restart(resetPoses(textBodies), epoch + 1)
            /\ closureShow' = FALSE
            /\ exiting' = TRUE
       ELSE /\ textBodies' = resetPoses(textBodies)
            /\ UNCHANGED << engineRef, render, walls, mouseBody, world, listeners, loops,
                            epoch, closureShow, exiting >>
    /\ lastOp' = "reset"
    /\ interacted' = TRUE
    /\ UNCHANGED << phase, viewport, heroRef, sceneRef, planVars, apiVars >>

\* React renders the queued setShowResetButton(true): checkForMovement gets a
\* new identity, so the effect is cleaned up and run again
Rerender ==
    /\ phase = "mounted"
    /\ pendingShow
    /\ epoch < MaxEpoch
    /\ pendingShow' = FALSE
    /\ showResetButton' = TRUE
    /\ closureShow' = TRUE
    /\ exiting' = FALSE
    /\ RerunEffect
    /\ lastOp' = "rerender"
    /\ UNCHANGED << phase, viewport, heroRef, sceneRef, hasBeenTouched, interacted,
                    planVars, apiVars >>

\* the exit animation of the reset button ends
ExitComplete ==
    /\ phase = "mounted"
    /\ exiting
    /\ exiting' = FALSE
    /\ lastOp' = "other"
    /\ UNCHANGED << phase, viewport, engineRef, world, render, textBodies, walls, mouseBody,
                    heroRef, sceneRef, listeners, loops,
                    hasBeenTouched, showResetButton, pendingShow, closureShow, epoch,
                    interacted, planVars, apiVars >>

\* the component unmounts: React detaches the refs and runs the effect's
\* cleanup in the same commit
Unmount ==
    /\ phase = "mounted"
    /\ phase' = "unmounted"
    /\ heroRef' = FALSE
    /\ sceneRef' = FALSE
    /\ listeners' = cleanupListeners(listeners, engineRef)
    /\ loops' = cleanupLoops(loops, engineRef)
    /\ world' = {}
    /\ render' = NoRender
    /\ pendingShow' = FALSE
    /\ exiting' = FALSE
    /\ lastOp' = "unmount"
    /\ UNCHANGED << viewport, engineRef, textBodies, walls, mouseBody, hasBeenTouched,
                    showResetButton, closureShow, epoch, interacted, planVars, apiVars >>

Next ==
    \/ MountEffect
    \/ EngineUpdate
    \/ AfterRender
    \/ handleMouseMove
    \/ handleTouchMove
    \/ handleTouchStart
    \/ handleResize
    \/ ResetClick
    \/ Rerender
    \/ ExitComplete
    \/ Unmount

Spec == Init /\ [][Next]_vars

(***************************************************************************)
(* Layout probe: getResponsiveConfig applied to each width 0..MaxWidth     *)
(***************************************************************************)
PlanInit ==
    /\ planWidth \in 0..MaxWidth
    /\ plan = NoPlan

Plan ==
    /\ plan = NoPlan
    /\ plan' = getResponsiveConfig(planWidth)
    /\ UNCHANGED << planWidth, sceneVars, apiVars >>

SceneIdle == SceneInit /\ viewport = [innerWidth |-> 320, innerHeight |-> 568, heroTop |-> 40]

LayoutInit == SceneIdle /\ PlanInit /\ ApiIdle

LayoutSpec == LayoutInit /\ [][Plan]_vars

(***************************************************************************)
(* Endpoint probe: POST applied to each request and store outcome          *)
(***************************************************************************)
SubscribeInit ==
    /\ SceneIdle
    /\ PlanIdle
    /\ request \in Requests
    /\ storeOutcome \in StoreOutcomes
    /\ response = NoResponse
    /\ contacts = <<>>

Subscribe ==
    /\ response = NoResponse
    /\ LET r == POST(request, storeOutcome)
       IN  /\ response' = r.response
           /\ contacts' = r.contacts
    /\ UNCHANGED << request, storeOutcome, sceneVars, planVars >>

SubscribeSpec == SubscribeInit /\ [][Subscribe]_vars

(***************************************************************************)
(* Guard probe: the mount effect, handleResize, createLetterBodies and     *)
(* createWalls applied with and without the surfaces they test for (the    *)
(* two refs, the engine's world), on a scene not yet built or built        *)
(***************************************************************************)
GuardInit ==
    /\ viewport \in Viewports
    /\ heroRef \in BOOLEAN
    /\ sceneRef \in BOOLEAN
    /\ hasBeenTouched \in BOOLEAN
    /\ showResetButton = hasBeenTouched
    /\ closureShow = hasBeenTouched
    /\ pendingShow = FALSE
    /\ exiting = FALSE
    /\ lastOp = "render"
    /\ interacted = FALSE
    /\ \E built \in BOOLEAN :
          IF built
          THEN LET r == Effect(viewport, <<>>, <<>>, 1)
               IN  /\ phase = "mounted"
                   /\ engineRef = r.engineRef
                   /\ render = r.render
                   /\ walls = r.walls
                   /\ textBodies = r.textBodies
                   /\ mouseBody = r.mouseBody
                   /\ world = r.world
                   /\ listeners = Registered(1)
                   /\ loops = Started(1)
                   /\ epoch = 1
          ELSE /\ phase = "rendered"
               /\ engineRef = 0
               /\ render = NoRender
               /\ walls = <<>>
               /\ textBodies = <<>>
               /\ mouseBody = NoBody
               /\ world = {}
               /\ listeners = {}
               /\ loops = {}
               /\ epoch = 0
    /\ PlanIdle
    /\ ApiIdle

\* createLetterBodies called on the refs as they are, for the hero rectangle
CallCreateLetterBodies ==
    /\ epoch < MaxEpoch
    /\ LET hero == HeroRect(viewport)
           l == createLetterBodies(engineRef, world, textBodies,
                                   hero.width, hero.left, hero.top, epoch + 1)
       IN  /\ textBodies' = l.textBodies
           /\ world' = l.world
    /\ epoch' = epoch + 1
    /\ lastOp' = "call"
    /\ UNCHANGED << phase, viewport, engineRef, render, walls, mouseBody, heroRef, sceneRef,
                    listeners, loops, hasBeenTouched, showResetButton, pendingShow,
                    closureShow, exiting, interacted, planVars, apiVars >>

\* createWalls called on the refs as they are, for the window's width
CallCreateWalls ==
    /\ epoch < MaxEpoch
    /\ LET w == createWalls(engineRef, world, walls, viewport.innerWidth, epoch + 1)
       IN  /\ walls' = w.walls
           /\ world' = w.world
    /\ epoch' = epoch + 1
    /\ lastOp' = "call"
    /\ UNCHANGED << phase, viewport, engineRef, render, textBodies, mouseBody, heroRef,
                    sceneRef, listeners, loops, hasBeenTouched, showResetButton,
                    pendingShow, closureShow, exiting, interacted, planVars, apiVars >>

GuardNext ==
    \/ MountEffect
    \/ handleResize
    \/ CallCreateLetterBodies
    \/ CallCreateWalls

GuardSpec == GuardInit /\ [][GuardNext]_vars

(***************************************************************************)
(* Properties                                                              *)
(***************************************************************************)
AtRestAtInitial(tb) ==
    /\ tb.body.x = tb.initialX
    /\ tb.body.y = tb.initialY
    /\ tb.body.angle = 0
    /\ tb.body.vx = 0
    /\ tb.body.vy = 0
    /\ tb.body.av = 0

GlyphIdsInWorld == world \ (WallIds(walls) \cup { mouseBody.id })

\* C1: in the state resetText leaves behind, every glyph body is at its
\* recorded initial position with angle 0, velocity (0,0) and angular velocity
\* 0, and the touched flag is false.
C1_ResetRestoresEveryGlyph ==
    lastOp = "reset" =>
        /\ \A n \in 1..Len(textBodies) : AtRestAtInitial(textBodies[n])
        /\ ~hasBeenTouched

\* a reset has run on a scene with glyphs whose pointer proxy is away from the
\* origin: a click during the exit animation, where nothing is rebuilt and only
\* resetText puts the glyphs back
C1_Witness ==
    /\ lastOp = "reset"
    /\ Len(textBodies) > 0
    /\ mouseBody.y # 0

\* C2: a resize while the touched flag is true leaves the glyph list with every
\* pose and initial position, the glyph bodies in the world, the pointer proxy
\* and the flags as they were; only the render size and the walls change.
C2_TouchedResizeKeepsGlyphs ==
    [][ (lastOp' = "resize" /\ hasBeenTouched) =>
            /\ textBodies' = textBodies
            /\ world' \ WallIds(walls') = world \ WallIds(walls)
            /\ UNCHANGED << mouseBody, engineRef, hasBeenTouched, showResetButton,
                            pendingShow, closureShow >> ]_vars

\* a resize has run while touched: a glyph is still away from its initial pose
\* and the walls are of a later batch than the glyphs
C2_Witness ==
    /\ lastOp = "resize"
    /\ hasBeenTouched
    /\ \E n \in 1..Len(textBodies) : ~AtRestAtInitial(textBodies[n])
    /\ walls[1].id \div 1000 > textBodies[1].body.id \div 1000

\* C3: a resize while the touched flag is false takes every previous glyph body
\* out of the world and puts in new ones, laid out for the hero rectangle of
\* the new window, each at its initial position with angle 0.
C3_UntouchedResizeRebuildsGlyphs ==
    [][ (lastOp' = "resize" /\ ~hasBeenTouched) =>
            LET hero == HeroRect(viewport')
            IN  /\ BodyIds(textBodies) \cap world' = {}
                /\ BodyIds(textBodies') \cap BodyIds(textBodies) = {}
                /\ GlyphIdsInWorld' = BodyIds(textBodies')
                /\ textBodies' = NewTextBodies(hero.width, hero.left, hero.top, epoch')
                /\ \A n \in 1..Len(textBodies') :
                      /\ textBodies'[n].body.x = textBodies'[n].initialX
                      /\ textBodies'[n].body.y = textBodies'[n].initialY
                      /\ textBodies'[n].body.angle = 0 ]_vars

\* an untouched resize has rebuilt the glyphs in an engine that is older than they are
C3_Witness ==
    /\ lastOp = "resize"
    /\ ~hasBeenTouched
    /\ Len(textBodies) > 0
    /\ textBodies[1].body.id > engineRef * 1000 + 999

\* C4: once the touched flag is true, no step other than a reset makes it false.
C4_TouchedIsSticky ==
    [][ (hasBeenTouched /\ lastOp' # "reset") => hasBeenTouched' ]_vars

\* a frame check has run while touched with every glyph within the thresholds
C4_Witness ==
    /\ lastOp = "frame"
    /\ hasBeenTouched
    /\ Len(textBodies) > 0
    /\ \A n \in 1..Len(textBodies) :
          /\ Abs(textBodies[n].body.x - textBodies[n].initialX) <= 5000
          /\ Abs(textBodies[n].body.y - textBodies[n].initialY) <= 5000
          /\ Abs(textBodies[n].body.angle) <= 10

\* C5: a frame check sets the touched flag exactly if some glyph is more than
\* 5 px from its initial position horizontally, or vertically, or is rotated by
\* more than 0.1 rad; a displacement of exactly 5 px or 0.1 rad does not count.
C5_StrictThresholds ==
    [][ lastOp' = "frame" =>
            hasBeenTouched' =
                ( \/ hasBeenTouched
                  \/ \E n \in 1..Len(textBodies) :
                        \/ textBodies[n].body.x - textBodies[n].initialX > 5000
                        \/ textBodies[n].initialX - textBodies[n].body.x > 5000
                        \/ textBodies[n].body.y - textBodies[n].initialY > 5000
                        \/ textBodies[n].initialY - textBodies[n].body.y > 5000
                        \/ textBodies[n].body.angle > 10
                        \/ textBodies[n].body.angle < -10 ) ]_vars

\* a frame check has seen a glyph exactly 5 px off on both axes and rotated by
\* exactly 0.1 rad, and the touched flag is still false
C5_Witness ==
    /\ lastOp = "frame"
    /\ ~hasBeenTouched
    /\ \E n \in 1..Len(textBodies) :
          /\ Abs(textBodies[n].body.x - textBodies[n].initialX) = 5000
          /\ Abs(textBodies[n].body.y - textBodies[n].initialY) = 5000
          /\ Abs(textBodies[n].body.angle) = 10

\* the rectangle of body b overlaps the rectangle of wall w
OverlapsWall(b, w) ==
    /\ 2 * Abs(b.x - w.x) < b.w + w.w
    /\ 2 * Abs(b.y - w.y) < b.h + w.h

\* C6: as long as no pointer, touch, resize or reset event has occurred, the
\* touched flag is false and the reset button is neither shown nor queued to
\* be shown, however many engine ticks and frames have run; every glyph is at
\* rest at its initial position, clear of the pointer proxy and of the walls.
C6_IdleSceneStaysUntouched ==
    ~interacted =>
        /\ ~hasBeenTouched
        /\ ~showResetButton
        /\ ~pendingShow
        /\ \A n \in 1..Len(textBodies) :
              /\ AtRestAtInitial(textBodies[n])
              /\ ~Touches(mouseBody, textBodies[n].body)
              /\ \A k \in 1..Len(walls) : ~OverlapsWall(textBodies[n].body, walls[k])

\* a frame check has run on a mounted scene that has seen no event
C6_Witness ==
    /\ ~interacted
    /\ phase = "mounted"
    /\ lastOp = "frame"
    /\ Len(textBodies) > 0

\* C7: the touched flag goes from false to true only in a frame check; the
\* frame check that sees a glyph beyond a threshold sets it and queues the
\* reset button (or the button is shown already); a frame check on a touched
\* scene changes neither the flag nor the button; whenever the flag is true
\* in a mounted scene the button is shown or queued to be shown; and the
\* render of the queued update shows it.
C7_TouchedOnceAndButtonShown ==
    [][ /\ (~hasBeenTouched /\ hasBeenTouched') => lastOp' = "frame"
        /\ (lastOp' = "frame" /\ ~hasBeenTouched /\ hasMoved(textBodies)) =>
              hasBeenTouched' /\ (pendingShow' \/ showResetButton')
        /\ (lastOp' = "frame" /\ hasBeenTouched) =>
              hasBeenTouched' /\ UNCHANGED << showResetButton, pendingShow >>
        /\ (hasBeenTouched' /\ phase' = "mounted") => (pendingShow' \/ showResetButton')
        /\ (pendingShow /\ lastOp' = "rerender") => showResetButton' ]_vars

\* a frame check has run on a touched scene whose reset button is shown
C7_Witness ==
    /\ lastOp = "frame"
    /\ hasBeenTouched
    /\ showResetButton

\* number of characters of s that are not spaces
NonSpaces(s) == Cardinality({ i \in 1..Len(s) : s[i] # " " })

RECURSIVE SumNonSpaces(_, _)
SumNonSpaces(lines, k) ==
    IF k > Len(lines) THEN 0 ELSE NonSpaces(lines[k]) + SumNonSpaces(lines, k + 1)

\* C8: in every state of a mounted scene the glyph list holds one body per
\* non-space character of the two title lines and of the wrapped description
\* lines (the same number for every sampled window), the bodies are distinct,
\* and they are exactly the glyph bodies in the world.
C8_BodyCount ==
    phase = "mounted" =>
        /\ \A v \in Viewports :
              Len(textBodies) =
                  NonSpaces(TITLE_LINE_1) + NonSpaces(TITLE_LINE_2)
                  + SumNonSpaces(getResponsiveConfig(HeroRect(v).width).descriptionLines, 1)
        /\ Cardinality(BodyIds(textBodies)) = Len(textBodies)
        /\ GlyphIdsInWorld = BodyIds(textBodies)

\* the glyphs have been rebuilt for the third time at least, last by a resize
C8_Witness ==
    /\ phase = "mounted"
    /\ lastOp = "resize"
    /\ Len(textBodies) > 0
    /\ textBodies[1].body.id \div 1000 >= 3

\* C9: every description line is at most floor(width / (descFontSize * 0.62)) - 2
\* characters long, unless it is a single word of the description that is
\* longer than that by itself.
C9_LinesFit ==
    plan # NoPlan =>
        LET limit == (planWidth * 100) \div (plan.descFontSize * 62) - 2
        IN  \A k \in 1..Len(plan.descriptionLines) :
                LET line == plan.descriptionLines[k]
                IN  \/ Len(line) <= limit
                    \/ /\ \A i \in 1..Len(line) : line[i] # " "
                       /\ \E j \in 1..Len(Split(DESCRIPTION_TEXT)) :
                             Split(DESCRIPTION_TEXT)[j] = line

\* a layout with a line that holds several words and a line that is one word
\* longer than the limit
C9_Witness ==
    /\ plan # NoPlan
    /\ \E k \in 1..Len(plan.descriptionLines) :
          \E i \in 1..Len(plan.descriptionLines[k]) : plan.descriptionLines[k][i] = " "
    /\ \E k \in 1..Len(plan.descriptionLines) :
          Len(plan.descriptionLines[k]) > (planWidth * 100) \div (plan.descFontSize * 62) - 2

\* the lines joined with single spaces
RECURSIVE JoinLines(_, _)
JoinLines(lines, k) ==
    IF k > Len(lines) THEN <<>>
    ELSE IF k = Len(lines) THEN lines[k]
    ELSE lines[k] \o <<" ">> \o JoinLines(lines, k + 1)

\* C10: the description lines joined with single spaces are the description
\* text again, so its words come back in order with none dropped.
C10_WrapKeepsWords ==
    plan # NoPlan =>
        /\ JoinLines(plan.descriptionLines, 1) = DESCRIPTION_TEXT
        /\ Split(JoinLines(plan.descriptionLines, 1)) = Split(DESCRIPTION_TEXT)

\* a layout that wraps the description into several lines of several words
C10_Witness ==
    /\ plan # NoPlan
    /\ Len(plan.descriptionLines) > 1
    /\ Len(plan.descriptionLines) < Len(Split(DESCRIPTION_TEXT))

\* the identity and recorded initial position of every glyph of the list
InitialPositions(tbs) ==
    [ n \in 1..Len(tbs) |-> << tbs[n].body.id, tbs[n].initialX, tbs[n].initialY >> ]

\* C12: once the glyph bodies exist, they and their recorded initial positions
\* are replaced only by a resize taken while the touched flag is false; no
\* step replaces them while the touched flag is true.
C12_GlyphsReplacedOnlyByUntouchedResize ==
    [][ (textBodies # <<>> /\ InitialPositions(textBodies') # InitialPositions(textBodies)) =>
            (lastOp' = "resize" /\ ~hasBeenTouched /\ ~hasBeenTouched') ]_vars

\* the pose of every glyph of the list
Poses(tbs) ==
    [ n \in 1..Len(tbs) |-> << tbs[n].body.x, tbs[n].body.y, tbs[n].body.angle >> ]

\* C13: neither a frame (render pass and movement check) nor the render that
\* the frame's state update triggers changes a glyph's pose or the set of
\* bodies in the world.
C13_FramePassOnlyReads ==
    [][ lastOp' \in { "frame", "rerender" } =>
            /\ Poses(textBodies') = Poses(textBodies)
            /\ world' = world ]_vars

\* C14: a scene (engine, world, listeners, loops) is created only by the mount,
\* with the touched flag false, and its loops are stopped only by the unmount.
C14_SceneLifecycle ==
    [][ /\ engineRef' # engineRef => (lastOp' = "mount" /\ ~hasBeenTouched')
        /\ (loops # {} /\ loops \cap loops' = {}) => lastOp' = "unmount" ]_vars

\* C15: every registered listener and every scheduled frame loop belongs to
\* the scene that is current, in a mounted component: a cleanup leaves none of
\* its scene behind.  Once the component is unmounted no listener and no loop
\* is left, the world stays empty and no handler has run since the cleanup.
C15_TeardownDetachesEverything ==
    /\ \A l \in listeners \cup loops : l[2] = engineRef /\ phase = "mounted"
    /\ phase = "unmounted" =>
          /\ listeners = {}
          /\ loops = {}
          /\ world = {}
          /\ lastOp = "unmount"

\* the component was unmounted after the effect had been cleaned up and run
\* again at least once
C15_Witness ==
    /\ phase = "unmounted"
    /\ engineRef >= 2
    /\ hasBeenTouched

\* the boundary bodies in the world: the bodies whose serial is 901..904
WallIdsInWorld == { i \in world : i % 1000 \in 901..904 }

\* C16: in every state of a mounted scene, after the mount and after every
\* resize with the touched flag true or false, the boundary bodies in the
\* world are exactly the four of wallsRef, all static, all of the latest
\* batch: floor, ceiling, left wall and right wall, 100 px thick, placed
\* around a box as wide as the window and 2000 px high.
C16_FourWalls ==
    phase = "mounted" =>
        LET W == viewport.innerWidth * 1000
        IN  /\ Len(walls) = 4
            /\ WallIdsInWorld = WallIds(walls)
            /\ Cardinality(WallIdsInWorld) = 4
            /\ \A k \in 1..Len(walls) : walls[k].isStatic /\ walls[k].id \div 1000 = epoch
            /\ << walls[1].x, walls[1].y, walls[1].w, walls[1].h >>
                   = << W \div 2, 2050000, 2 * W, 100000 >>
            /\ << walls[2].x, walls[2].y, walls[2].w, walls[2].h >>
                   = << W \div 2, -50000, 2 * W, 100000 >>
            /\ << walls[3].x, walls[3].y, walls[3].w, walls[3].h >>
                   = << -50000, 1000000, 100000, 4000000 >>
            /\ << walls[4].x, walls[4].y, walls[4].w, walls[4].h >>
                   = << W + 50000, 1000000, 100000, 4000000 >>

\* a touched scene has been resized for the second time at least, to a window
\* of another width than the one its glyphs were laid out for
C16_Witness ==
    /\ phase = "mounted"
    /\ lastOp = "resize"
    /\ hasBeenTouched
    /\ walls[1].id \div 1000 >= textBodies[1].body.id \div 1000 + 2
    /\ render.width = viewport.innerWidth
    /\ \E v \in Viewports : v.innerWidth # viewport.innerWidth
          /\ textBodies[1].initialX = HeroRect(v).left * 1000 + textBodies[1].fontSize * 310

\* C17: createLetterBodies and createWalls called while there is no engine,
\* the mount effect run while the scene or the hero element is not attached,
\* and handleResize run while the hero element is not attached leave the glyph
\* list, the wall list, the world, the engine, the render, the listeners, the
\* loops, the touched flag and the reset button as they were.
C17_AbsentSurfacesAreNoOps ==
    [][ ( \/ lastOp' = "call" /\ engineRef = 0
          \/ lastOp' = "mount" /\ ~(sceneRef /\ heroRef)
          \/ lastOp' = "resize" /\ ~heroRef ) =>
            UNCHANGED << textBodies, walls, world, engineRef, render, mouseBody, listeners,
                         loops, hasBeenTouched, showResetButton, pendingShow >> ]_vars

\* handleResize has run on a built scene whose hero element is not attached,
\* for a window of another size than the render still has
C17_Witness ==
    /\ lastOp = "resize"
    /\ ~heroRef
    /\ Len(textBodies) > 0
    /\ render.width # viewport.innerWidth

\* a non-empty string with no white space and exactly one "@", which is not
\* its first character and is followed, after at least one character, by a
\* "." that is not the last character
IsBasicEmail(email) ==
    /\ email.type = "string"
    /\ LET str == email.value
           ats == { i \in 1..Len(str) : str[i] = "@" }
       IN  /\ Len(str) > 0
           /\ \A i \in 1..Len(str) : str[i] # " "
           /\ Cardinality(ats) = 1
           /\ \A i \in ats : i > 1 /\ \E j \in (i + 2)..(Len(str) - 1) : str[j] = "."

\* C18: the endpoint passes an email to the contact store only if the body's
\* email is a string of the basic pattern, and then passes that email once;
\* a body that parses to anything but null with a missing, non-string, empty
\* or malformed email gets status 400 and no store call; a body that does not
\* parse or is null, a store error and a store exception get status 500; the
\* success response goes out exactly when the store was called and reported
\* no error.
C18_SubscribeEndpoint ==
    response # NoResponse =>
        LET parsed == request.body \in { "object", "primitive" }
            valid == parsed /\ IsBasicEmail(request.email)
            failed == storeOutcome \in { "error", "throws" }
        IN  /\ contacts = IF valid THEN << request.email.value >> ELSE <<>>
            /\ (parsed /\ ~valid) => response.status = 400
            /\ (~parsed \/ (valid /\ failed)) => response.status = 500
            /\ response.status \in { 200, 400, 500 }
            /\ response.success = (response.status = 200)
            /\ response.success = (valid /\ ~failed)
            /\ response.success = (response.error = "")

\* the endpoint has answered a well-formed email whose domain part holds a
\* second "." with a failure because the contact store reported an error
C18_Witness ==
    /\ response.status = 500
    /\ storeOutcome = "error"
    /\ Len(contacts) = 1
    /\ Cardinality({ i \in 1..Len(contacts[1]) : contacts[1][i] = "." }) = 2

\* C19: in every state of the mounted component in which no state update is
\* queued, the reset button is shown exactly if the touched flag is true; and
\* the movement check always runs with the current value of showResetButton.
C19_ButtonAgreesWithTouched ==
    (phase = "mounted" /\ ~pendingShow) =>
        /\ showResetButton = hasBeenTouched
        /\ closureShow = showResetButton

\* the button is shown for the second time: the scene was touched, reset and
\* touched again, and a frame check has run since
C19_Witness ==
    /\ phase = "mounted"
    /\ ~pendingShow
    /\ lastOp = "frame"
    /\ showResetButton
    /\ hasBeenTouched
    /\ engineRef >= 4

====
